---- MODULE Spec2Model ----
(***************************************************************************)
(* The image backing store of ebiten (src/imageimpl.go): one imageImpl per *)
(* logical image, its pixel cache, base colour and draw history, and the   *)
(* restore procedure run after the GL context has been lost.               *)
(***************************************************************************)
EXTENDS Integers, Sequences, FiniteSets, TLC

\* ---------------------------------------------------------------- bounds
Width == 2
Height == 1
MaxHistory == 2
MaxCycles == 2

\* ------------------------------------------------------------ the images
\* A and B are made by newImageImpl(.., volatile = false); S is made either
\* by newImageImpl(.., volatile = true) or by newScreenImageImpl.
Images == {"A", "B", "S"}

PixLen == 4 * Width * Height

\* A Go nil slice, nil colour or nil history is the empty sequence.
Nil == <<>>

\* ---------------------------------------------------------------- colours
\* A color.Color is modelled by what its RGBA() method returns: four
\* alpha-premultiplied 16 bit channels.
Transparent == <<0, 0, 0, 0>>
Red == <<65535, 0, 0, 65535>>
\* color.RGBA64{0x1234, 0, 0, 0xffff}: high and low byte of R differ.
Deep == <<4660, 0, 0, 65535>>
\* color.RGBA{0, 128, 0, 128}: half transparent, so that drawing it twice
\* differs from drawing it once.
HalfGreen == <<0, 32896, 0, 32896>>
Colors == {Transparent, Red, Deep}

\* uint8(v) of a uint32: the low byte.
Uint8(v) == v % 256

\* The 8 bit value a GL texture stores for a 16 bit channel v/0xffff.
Quantize8(v) == (v * 255 + 32767) \div 65535

\* The RGBA8 pixel the texture holds for colour c.
ToPixel(c) == <<Quantize8(c[1]), Quantize8(c[2]), Quantize8(c[3]), Quantize8(c[4])>>

\* A dense RGBA8 buffer, row-major, every pixel equal to px.
Broadcast(px) == [k \in 1..PixLen |-> px[((k - 1) % 4) + 1]]

\* make([]uint8, width*height*4)
Blank == Broadcast(<<0, 0, 0, 0>>)

\* The pixel of buffer p at (x, y): idx := 4*x + 4*y*i.width
PixelAt(p, x, y) ==
    LET idx == 4 * x + 4 * y * Width
    IN  <<p[idx + 1], p[idx + 2], p[idx + 3], p[idx + 4]>>

Points == (0..(Width - 1)) \X (0..(Height - 1))

\* ------------------------------------------------ ReplacePixels' arguments
Gradient ==
    [k \in 1..PixLen |->
        LET n == ((k - 1) \div 4) + 1
            ch == (k - 1) % 4
        IN  IF ch = 3 THEN 255 ELSE (n * 40 * (ch + 1)) % 256]
ShortBuffer == SubSeq(Gradient, 1, PixLen - 1)
LongBuffer == Gradient \o <<0>>
Buffers == {Gradient, ShortBuffer, LongBuffer}

\* ------------------------------------------------------ DrawImage's parts
\* options.ImageParts: the whole source image, or a selection of no part.
PartsChoices == {"whole", "none"}
\* n := quads.vertices(vertices): the number of quads the parts give.
NumQuads(parts) == IF parts = "whole" THEN 1 ELSE 0

\* --------------------------------------------------------------- results
NoError == "nil"
AlreadyDisposed == "ebiten: image is already disposed"
InvalidOperand == "ebiten: Image.DrawImage: image should be different from the receiver"
SizeMismatch == "ebiten: p's length must be 4*width*height"
BackendFailure == "backend error"
PanicNotReach == "panic: not reach"
PanicReadback == "panic: Pixels failed"
PanicNilImage == "panic: nil image"
Panics == {PanicNotReach, PanicReadback, PanicNilImage}

VARIABLES
    images,             \* the images that exist (the restore coordinator's registry)
    image,              \* i.image: the GPU texture, [nil, pix]
    disposed,           \* i.disposed
    pixels,             \* i.pixels: the pixel cache, Nil or PixLen bytes
    baseColor,          \* i.baseColor: Nil or a colour
    drawImageHistory,   \* i.drawImageHistory: sequence of items
    volatile,           \* i.volatile
    screen,             \* i.screen
    lost,               \* the images whose texture belongs to a lost context
    ret,                \* the last call and what it returned
    lastFill,           \* history: the colour of the last successful Fill
                        \* and the restores since, while nothing else touched
                        \* the image
    scenario,           \* history: the context was lost in the state of the
                        \* restore fidelity scenario and only restores ran since
    restoreOrder,       \* history: the order of those restores
    pc                  \* i.m and the restore that holds it: 0 when i.m is
                        \* free, k >= 1 when a restore of i holds i.m and is
                        \* at item k of its replay loop

vars == <<images, image, disposed, pixels, baseColor, drawImageHistory, volatile,
          screen, lost, ret, lastFill, scenario, restoreOrder, pc>>

implVars == <<image, disposed, pixels, baseColor, drawImageHistory>>

\* ------------------------------------------------------- the GPU backend
NilImage == [nil |-> TRUE, pix |-> Nil]
Texture(p) == [nil |-> FALSE, pix |-> p]

\* graphics.Image.Fill: every pixel becomes the colour.
GpuFill(c) == Texture(Broadcast(ToPixel(c)))

Min(a, b) == IF a < b THEN a ELSE b

\* graphics.Image.DrawImage of the whole source at the identity transform
\* in source-over mode, on premultiplied RGBA8: out = src + dst*(1 - srcA).
CompositeDraw(dst, src) ==
    [k \in 1..PixLen |->
        LET a == src[4 * ((k - 1) \div 4) + 4]
        IN  Min(255, src[k] + (dst[k] * (255 - a)) \div 255)]

\* graphics.Image.Pixels / ReplacePixels / Dispose and the three texture
\* constructors act on image[i] inside the operations below; ok = FALSE is
\* the backend returning an error, which leaves the texture as it was.

\* ------------------------------------------------------- history helpers
NoFill == [c |-> Nil, k |-> 0]

Ret(op, i, err, val) == [op |-> op, img |-> i, err |-> err, val |-> val]

\* The context is live, every image has been restored (so every i.m is
\* free), and no panic has ended the program: the state in which the host
\* calls the operations.
Live == lost = {} /\ ret.err \notin Panics

\* An operation other than a successful Fill or a restore acted on image i.
Touch(i) ==
    /\ lastFill' = [lastFill EXCEPT ![i] = NoFill]
    /\ scenario' = FALSE
    /\ restoreOrder' = <<>>

\* ---------------------------------------------------------- construction
\* newImageImpl(width, height, filter, volatile) for A and B and for a
\* volatile S; newScreenImageImpl(width, height) for a screen S.  made is
\* the set of images the program has constructed.
InitWith(made) ==
    /\ images = made
    /\ image = [i \in Images |-> Texture(Blank)]
    /\ disposed = [i \in Images |-> FALSE]
    /\ pixels = [i \in Images |-> Blank]
    /\ baseColor = [i \in Images |-> Nil]
    /\ drawImageHistory = [i \in Images |-> Nil]
    /\ \E scr \in BOOLEAN :
          /\ volatile = [i \in Images |-> i = "S"]
          /\ screen = [i \in Images |-> i = "S" /\ scr]
    /\ lost = {}
    /\ ret = Ret("new", "A", NoError, Nil)
    /\ lastFill = [i \in Images |-> NoFill]
    /\ scenario = FALSE
    /\ restoreOrder = <<>>
    /\ pc = [i \in Images |-> 0]

\* A program with one persistent image and the volatile or screen image.
Init == InitWith({"A", "S"})

\* ----------------------------------------------------------------- Fill
\* Fill without "i.pixels = nil".
FillKeepsPixels(i, clr, ok) ==
    /\ Live
    /\ UNCHANGED <<images, volatile, screen, lost, pc>>
    /\ scenario' = FALSE
    /\ restoreOrder' = <<>>
    /\ IF disposed[i] THEN
          /\ ret' = Ret("Fill", i, AlreadyDisposed, Nil)
          /\ lastFill' = [lastFill EXCEPT ![i] = NoFill]
          /\ UNCHANGED implVars
       ELSE
          /\ baseColor' = [baseColor EXCEPT ![i] = clr]
          /\ drawImageHistory' = [drawImageHistory EXCEPT ![i] = Nil]
          /\ UNCHANGED <<disposed, pixels>>
          /\ IF image[i].nil THEN
                /\ ret' = Ret("Fill", i, PanicNilImage, Nil)
                /\ lastFill' = [lastFill EXCEPT ![i] = NoFill]
                /\ UNCHANGED image
             ELSE IF ok THEN
                /\ image' = [image EXCEPT ![i] = GpuFill(clr)]
                /\ ret' = Ret("Fill", i, NoError, Nil)
                /\ lastFill' = [lastFill EXCEPT ![i] = [c |-> clr, k |-> 0]]
             ELSE
                /\ ret' = Ret("Fill", i, BackendFailure, Nil)
                /\ lastFill' = [lastFill EXCEPT ![i] = NoFill]
                /\ UNCHANGED image

Fill(i, clr, ok) ==
    /\ Live
    /\ UNCHANGED <<images, volatile, screen, lost, pc>>
    /\ scenario' = FALSE
    /\ restoreOrder' = <<>>
    /\ IF disposed[i] THEN
          /\ ret' = Ret("Fill", i, AlreadyDisposed, Nil)
          /\ lastFill' = [lastFill EXCEPT ![i] = NoFill]
          /\ UNCHANGED implVars
       ELSE
          /\ pixels' = [pixels EXCEPT ![i] = Nil]
          /\ baseColor' = [baseColor EXCEPT ![i] = clr]
          /\ drawImageHistory' = [drawImageHistory EXCEPT ![i] = Nil]
          /\ UNCHANGED disposed
          /\ IF image[i].nil THEN
                /\ ret' = Ret("Fill", i, PanicNilImage, Nil)
                /\ lastFill' = [lastFill EXCEPT ![i] = NoFill]
                /\ UNCHANGED image
             ELSE IF ok THEN
                /\ image' = [image EXCEPT ![i] = GpuFill(clr)]
                /\ ret' = Ret("Fill", i, NoError, Nil)
                /\ lastFill' = [lastFill EXCEPT ![i] = [c |-> clr, k |-> 0]]
             ELSE
                /\ ret' = Ret("Fill", i, BackendFailure, Nil)
                /\ lastFill' = [lastFill EXCEPT ![i] = NoFill]
                /\ UNCHANGED image

\* ------------------------------------------------------- clearIfVolatile
\* clearIfVolatile without "i.pixels = nil".
clearIfVolatileKeepsPixels(i, ok) ==
    /\ Live
    /\ UNCHANGED <<images, volatile, screen, lost, pc>>
    /\ Touch(i)
    /\ IF disposed[i] \/ ~volatile[i] THEN
          /\ ret' = Ret("clearIfVolatile", i, NoError, Nil)
          /\ UNCHANGED implVars
       ELSE
          /\ baseColor' = [baseColor EXCEPT ![i] = Nil]
          /\ drawImageHistory' = [drawImageHistory EXCEPT ![i] = Nil]
          /\ UNCHANGED <<disposed, pixels>>
          /\ IF image[i].nil THEN
                /\ ret' = Ret("clearIfVolatile", i, PanicNilImage, Nil)
                /\ UNCHANGED image
             ELSE IF ok THEN
                /\ image' = [image EXCEPT ![i] = GpuFill(Transparent)]
                /\ ret' = Ret("clearIfVolatile", i, NoError, Nil)
             ELSE
                /\ ret' = Ret("clearIfVolatile", i, BackendFailure, Nil)
                /\ UNCHANGED image

clearIfVolatile(i, ok) ==
    /\ Live
    /\ UNCHANGED <<images, volatile, screen, lost, pc>>
    /\ Touch(i)
    /\ IF disposed[i] \/ ~volatile[i] THEN
          /\ ret' = Ret("clearIfVolatile", i, NoError, Nil)
          /\ UNCHANGED implVars
       ELSE
          /\ pixels' = [pixels EXCEPT ![i] = Nil]
          /\ baseColor' = [baseColor EXCEPT ![i] = Nil]
          /\ drawImageHistory' = [drawImageHistory EXCEPT ![i] = Nil]
          /\ UNCHANGED disposed
          /\ IF image[i].nil THEN
                /\ ret' = Ret("clearIfVolatile", i, PanicNilImage, Nil)
                /\ UNCHANGED image
             ELSE IF ok THEN
                /\ image' = [image EXCEPT ![i] = GpuFill(Transparent)]
                /\ ret' = Ret("clearIfVolatile", i, NoError, Nil)
             ELSE
                /\ ret' = Ret("clearIfVolatile", i, BackendFailure, Nil)
                /\ UNCHANGED image

\* ------------------------------------------------------------ DrawImage
\* The drawImageHistoryItem the call appends; geom and colorm are the
\* identity and mode is source-over.
HistoryItem(src, parts) == [image |-> src, vertices |-> parts, mode |-> "SourceOver"]

\* DrawImage without its "already disposed" check.
DrawImageUnchecked(i, src, parts, ok) ==
    /\ Live
    /\ UNCHANGED <<images, volatile, screen, lost, pc>>
    /\ Touch(i)
    /\ IF NumQuads(parts) = 0 THEN
          /\ ret' = Ret("DrawImage", i, NoError, Nil)
          /\ UNCHANGED implVars
       ELSE IF i = src THEN
          /\ ret' = Ret("DrawImage", i, InvalidOperand, Nil)
          /\ UNCHANGED implVars
       ELSE
          /\ Len(drawImageHistory[i]) < MaxHistory
          /\ drawImageHistory' =
                [drawImageHistory EXCEPT ![i] = Append(@, HistoryItem(src, parts))]
          /\ UNCHANGED <<disposed, pixels, baseColor>>
          /\ IF image[i].nil \/ image[src].nil THEN
                /\ ret' = Ret("DrawImage", i, PanicNilImage, Nil)
                /\ UNCHANGED image
             ELSE IF ok THEN
                /\ image' = [image EXCEPT
                                ![i] = Texture(CompositeDraw(image[i].pix, image[src].pix))]
                /\ ret' = Ret("DrawImage", i, NoError, Nil)
             ELSE
                /\ ret' = Ret("DrawImage", i, BackendFailure, Nil)
                /\ UNCHANGED image

\* DrawImage without its test that the source is not the receiver.
DrawImageAllowsSelf(i, src, parts, ok) ==
    /\ Live
    /\ UNCHANGED <<images, volatile, screen, lost, pc>>
    /\ Touch(i)
    /\ IF NumQuads(parts) = 0 THEN
          /\ ret' = Ret("DrawImage", i, NoError, Nil)
          /\ UNCHANGED implVars
       ELSE IF disposed[i] THEN
          /\ ret' = Ret("DrawImage", i, AlreadyDisposed, Nil)
          /\ UNCHANGED implVars
       ELSE
          /\ Len(drawImageHistory[i]) < MaxHistory
          /\ drawImageHistory' =
                [drawImageHistory EXCEPT ![i] = Append(@, HistoryItem(src, parts))]
          /\ UNCHANGED <<disposed, pixels, baseColor>>
          /\ IF image[i].nil \/ image[src].nil THEN
                /\ ret' = Ret("DrawImage", i, PanicNilImage, Nil)
                /\ UNCHANGED image
             ELSE IF ok THEN
                /\ image' = [image EXCEPT
                                ![i] = Texture(CompositeDraw(image[i].pix, image[src].pix))]
                /\ ret' = Ret("DrawImage", i, NoError, Nil)
             ELSE
                /\ ret' = Ret("DrawImage", i, BackendFailure, Nil)
                /\ UNCHANGED image

\* DrawImage that appends its record only when the composite draw succeeded.
DrawImageAppendsAfterDraw(i, src, parts, ok) ==
    /\ Live
    /\ UNCHANGED <<images, volatile, screen, lost, pc>>
    /\ Touch(i)
    /\ IF NumQuads(parts) = 0 THEN
          /\ ret' = Ret("DrawImage", i, NoError, Nil)
          /\ UNCHANGED implVars
       ELSE IF i = src THEN
          /\ ret' = Ret("DrawImage", i, InvalidOperand, Nil)
          /\ UNCHANGED implVars
       ELSE IF disposed[i] THEN
          /\ ret' = Ret("DrawImage", i, AlreadyDisposed, Nil)
          /\ UNCHANGED implVars
       ELSE
          /\ Len(drawImageHistory[i]) < MaxHistory
          /\ UNCHANGED <<disposed, pixels, baseColor>>
          /\ IF image[i].nil \/ image[src].nil THEN
                /\ ret' = Ret("DrawImage", i, PanicNilImage, Nil)
                /\ UNCHANGED <<image, drawImageHistory>>
             ELSE IF ok THEN
                /\ drawImageHistory' =
                      [drawImageHistory EXCEPT ![i] = Append(@, HistoryItem(src, parts))]
                /\ image' = [image EXCEPT
                                ![i] = Texture(CompositeDraw(image[i].pix, image[src].pix))]
                /\ ret' = Ret("DrawImage", i, NoError, Nil)
             ELSE
                /\ ret' = Ret("DrawImage", i, BackendFailure, Nil)
                /\ UNCHANGED <<image, drawImageHistory>>

\* DrawImage that clears the base colour when it appends its record.
DrawImageClearsBaseColor(i, src, parts, ok) ==
    /\ Live
    /\ UNCHANGED <<images, volatile, screen, lost, pc>>
    /\ Touch(i)
    /\ IF NumQuads(parts) = 0 THEN
          /\ ret' = Ret("DrawImage", i, NoError, Nil)
          /\ UNCHANGED implVars
       ELSE IF i = src THEN
          /\ ret' = Ret("DrawImage", i, InvalidOperand, Nil)
          /\ UNCHANGED implVars
       ELSE IF disposed[i] THEN
          /\ ret' = Ret("DrawImage", i, AlreadyDisposed, Nil)
          /\ UNCHANGED implVars
       ELSE
          /\ Len(drawImageHistory[i]) < MaxHistory
          /\ drawImageHistory' =
                [drawImageHistory EXCEPT ![i] = Append(@, HistoryItem(src, parts))]
          /\ baseColor' = [baseColor EXCEPT ![i] = Nil]
          /\ UNCHANGED <<disposed, pixels>>
          /\ IF image[i].nil \/ image[src].nil THEN
                /\ ret' = Ret("DrawImage", i, PanicNilImage, Nil)
                /\ UNCHANGED image
             ELSE IF ok THEN
                /\ image' = [image EXCEPT
                                ![i] = Texture(CompositeDraw(image[i].pix, image[src].pix))]
                /\ ret' = Ret("DrawImage", i, NoError, Nil)
             ELSE
                /\ ret' = Ret("DrawImage", i, BackendFailure, Nil)
                /\ UNCHANGED image

DrawImage(i, src, parts, ok) ==
    /\ Live
    /\ UNCHANGED <<images, volatile, screen, lost, pc>>
    /\ Touch(i)
    /\ IF NumQuads(parts) = 0 THEN
          /\ ret' = Ret("DrawImage", i, NoError, Nil)
          /\ UNCHANGED implVars
       ELSE IF i = src THEN
          /\ ret' = Ret("DrawImage", i, InvalidOperand, Nil)
          /\ UNCHANGED implVars
       ELSE IF disposed[i] THEN
          /\ ret' = Ret("DrawImage", i, AlreadyDisposed, Nil)
          /\ UNCHANGED implVars
       ELSE
          /\ Len(drawImageHistory[i]) < MaxHistory
          /\ drawImageHistory' =
                [drawImageHistory EXCEPT ![i] = Append(@, HistoryItem(src, parts))]
          /\ UNCHANGED <<disposed, pixels, baseColor>>
          /\ IF image[i].nil \/ image[src].nil THEN
                /\ ret' = Ret("DrawImage", i, PanicNilImage, Nil)
                /\ UNCHANGED image
             ELSE IF ok THEN
                /\ image' = [image EXCEPT
                                ![i] = Texture(CompositeDraw(image[i].pix, image[src].pix))]
                /\ ret' = Ret("DrawImage", i, NoError, Nil)
             ELSE
                /\ ret' = Ret("DrawImage", i, BackendFailure, Nil)
                /\ UNCHANGED image

\* ------------------------------------------------------------------- At
\* The value At(x, y) returns on a live image whose readback succeeds.
AtValue(i, x, y) ==
    IF disposed[i] THEN <<0, 0, 0, 0>>
    ELSE IF pixels[i] = Nil \/ drawImageHistory[i] # Nil
         THEN PixelAt(image[i].pix, x, y)
         ELSE PixelAt(pixels[i], x, y)

\* At without "i.drawImageHistory = nil" after its readback.
AtKeepsHistory(i, x, y, ok) ==
    /\ Live
    /\ UNCHANGED <<images, volatile, screen, lost, pc>>
    /\ Touch(i)
    /\ IF disposed[i] THEN
          /\ ret' = Ret("At", i, NoError, <<0, 0, 0, 0>>)
          /\ UNCHANGED implVars
       ELSE IF pixels[i] = Nil \/ drawImageHistory[i] # Nil THEN
          /\ UNCHANGED <<image, disposed, baseColor, drawImageHistory>>
          /\ IF image[i].nil THEN
                /\ ret' = Ret("At", i, PanicNilImage, Nil)
                /\ UNCHANGED pixels
             ELSE IF ok THEN
                /\ pixels' = [pixels EXCEPT ![i] = image[i].pix]
                /\ ret' = Ret("At", i, NoError, PixelAt(image[i].pix, x, y))
             ELSE
                /\ pixels' = [pixels EXCEPT ![i] = Nil]
                /\ ret' = Ret("At", i, PanicReadback, Nil)
       ELSE
          /\ ret' = Ret("At", i, NoError, PixelAt(pixels[i], x, y))
          /\ UNCHANGED implVars

At(i, x, y, ok) ==
    /\ Live
    /\ UNCHANGED <<images, volatile, screen, lost, pc>>
    /\ Touch(i)
    /\ IF disposed[i] THEN
          /\ ret' = Ret("At", i, NoError, <<0, 0, 0, 0>>)
          /\ UNCHANGED implVars
       ELSE IF pixels[i] = Nil \/ drawImageHistory[i] # Nil THEN
          /\ UNCHANGED <<image, disposed, baseColor>>
          /\ IF image[i].nil THEN
                /\ ret' = Ret("At", i, PanicNilImage, Nil)
                /\ UNCHANGED <<pixels, drawImageHistory>>
             ELSE IF ok THEN
                /\ pixels' = [pixels EXCEPT ![i] = image[i].pix]
                /\ drawImageHistory' = [drawImageHistory EXCEPT ![i] = Nil]
                /\ ret' = Ret("At", i, NoError, PixelAt(image[i].pix, x, y))
             ELSE
                /\ pixels' = [pixels EXCEPT ![i] = Nil]
                /\ UNCHANGED drawImageHistory
                /\ ret' = Ret("At", i, PanicReadback, Nil)
       ELSE
          /\ ret' = Ret("At", i, NoError, PixelAt(pixels[i], x, y))
          /\ UNCHANGED implVars

\* ------------------------------------------- hasHistoryWith, hasHistory
hasHistoryWith(i, target) ==
    \E k \in 1..Len(drawImageHistory[i]) : drawImageHistory[i][k].image = target

hasHistory(i) == drawImageHistory[i] # Nil

\* ------------------------------------------------- resetHistoryIfNeeded
\* resetHistoryIfNeeded without its hasHistoryWith(target) test.
resetHistoryAnyTarget(i, target, ok) ==
    /\ Live
    /\ UNCHANGED <<images, volatile, screen, lost, pc>>
    /\ Touch(i)
    /\ ret' = Ret("resetHistoryIfNeeded", i,
                  IF ~disposed[i] /\ drawImageHistory[i] # Nil /\ image[i].nil
                  THEN PanicNilImage ELSE NoError,
                  Nil)
    /\ IF disposed[i] \/ drawImageHistory[i] = Nil \/ image[i].nil THEN
          UNCHANGED implVars
       ELSE IF ok THEN
          /\ pixels' = [pixels EXCEPT ![i] = image[i].pix]
          /\ baseColor' = [baseColor EXCEPT ![i] = Nil]
          /\ drawImageHistory' = [drawImageHistory EXCEPT ![i] = Nil]
          /\ UNCHANGED <<image, disposed>>
       ELSE
          /\ pixels' = [pixels EXCEPT ![i] = Nil]
          /\ UNCHANGED <<image, disposed, baseColor, drawImageHistory>>

resetHistoryIfNeeded(i, target, ok) ==
    /\ Live
    /\ UNCHANGED <<images, volatile, screen, lost, pc>>
    /\ Touch(i)
    /\ ret' = Ret("resetHistoryIfNeeded", i,
                  IF ~disposed[i] /\ hasHistoryWith(i, target) /\ image[i].nil
                  THEN PanicNilImage ELSE NoError,
                  Nil)
    /\ IF disposed[i] \/ drawImageHistory[i] = Nil \/ ~hasHistoryWith(i, target)
          \/ image[i].nil THEN
          UNCHANGED implVars
       ELSE IF ok THEN
          /\ pixels' = [pixels EXCEPT ![i] = image[i].pix]
          /\ baseColor' = [baseColor EXCEPT ![i] = Nil]
          /\ drawImageHistory' = [drawImageHistory EXCEPT ![i] = Nil]
          /\ UNCHANGED <<image, disposed>>
       ELSE
          /\ pixels' = [pixels EXCEPT ![i] = Nil]
          /\ UNCHANGED <<image, disposed, baseColor, drawImageHistory>>

\* -------------------------------------------------------------- restore
\* img := image.NewRGBA(..) seeded from i.pixels, else from i.baseColor.
RestoreSeed(i) ==
    IF pixels[i] # Nil THEN
        [k \in 1..PixLen |-> pixels[i][k]]
    ELSE IF baseColor[i] # Nil THEN
        Broadcast(<<Uint8(baseColor[i][1]), Uint8(baseColor[i][2]),
                    Uint8(baseColor[i][3]), Uint8(baseColor[i][4])>>)
    ELSE Blank

\* What a draw from a texture of the lost context can give: a GL error, or
\* the texels of whatever the stale name now denotes (nothing, or a texture
\* made since the context came back).
StaleOutcomes ==
    {[err |-> TRUE, pix |-> Nil], [err |-> FALSE, pix |-> Blank]}
    \cup {[err |-> FALSE, pix |-> image[j].pix] :
            j \in {j \in images \ lost : ~image[j].nil}}

\* The replay loop walking the history from its last item to its first.
RECURSIVE ReplayBackwards(_, _, _, _, _, _)
ReplayBackwards(i, pix, k, failAt, stale, stillLost) ==
    IF k > Len(drawImageHistory[i]) THEN [pix |-> pix, err |-> NoError]
    ELSE
        LET src == drawImageHistory[i][Len(drawImageHistory[i]) + 1 - k].image
        IN  IF hasHistory(src) THEN [pix |-> pix, err |-> PanicNotReach]
            ELSE IF image[src].nil THEN [pix |-> pix, err |-> PanicNilImage]
            ELSE IF src \in stillLost THEN
                IF stale[src].err THEN [pix |-> pix, err |-> BackendFailure]
                ELSE ReplayBackwards(i, CompositeDraw(pix, stale[src].pix), k + 1,
                                     failAt, stale, stillLost)
            ELSE IF failAt = k THEN [pix |-> pix, err |-> BackendFailure]
            ELSE ReplayBackwards(i, CompositeDraw(pix, image[src].pix), k + 1,
                                 failAt, stale, stillLost)

\* for _, c := range i.drawImageHistory { ... }, from item k on, on a
\* texture holding pix.  failAt is the item whose draw the backend fails.
RECURSIVE Replay(_, _, _, _, _, _)
Replay(i, pix, k, failAt, stale, stillLost) ==
    IF k > Len(drawImageHistory[i]) THEN [pix |-> pix, err |-> NoError]
    ELSE
        LET src == drawImageHistory[i][k].image
        IN  IF hasHistory(src) THEN [pix |-> pix, err |-> PanicNotReach]
            ELSE IF image[src].nil THEN [pix |-> pix, err |-> PanicNilImage]
            ELSE IF src \in stillLost THEN
                IF stale[src].err THEN [pix |-> pix, err |-> BackendFailure]
                ELSE Replay(i, CompositeDraw(pix, stale[src].pix), k + 1,
                            failAt, stale, stillLost)
            ELSE IF failAt = k THEN [pix |-> pix, err |-> BackendFailure]
            ELSE Replay(i, CompositeDraw(pix, image[src].pix), k + 1,
                        failAt, stale, stillLost)

restore(i, okCreate, failAt, stale, okRead) ==
    /\ i \in lost
    /\ ret.err \notin Panics
    /\ pc[i] = 0
    /\ lost' = lost \ {i}
    /\ UNCHANGED <<images, volatile, screen, pc>>
    /\ LET injected == ~okCreate \/ failAt # 0 \/ ~okRead
       IN  /\ scenario' = (scenario /\ ~injected)
           /\ restoreOrder' = IF scenario /\ ~injected
                               THEN Append(restoreOrder, i) ELSE <<>>
    /\ IF disposed[i] THEN
          /\ ret' = Ret("restore", i, NoError, Nil)
          /\ UNCHANGED implVars
       ELSE IF screen[i] \/ volatile[i] THEN
          \* graphics.NewScreenFramebufferImage / graphics.NewImage
          /\ image' = [image EXCEPT ![i] = IF okCreate THEN Texture(Blank) ELSE NilImage]
          /\ ret' = Ret("restore", i, IF okCreate THEN NoError ELSE BackendFailure, Nil)
          /\ UNCHANGED <<disposed, pixels, baseColor, drawImageHistory>>
       ELSE IF ~okCreate THEN
          \* graphics.NewImageFromImage returned an error
          /\ image' = [image EXCEPT ![i] = NilImage]
          /\ ret' = Ret("restore", i, BackendFailure, Nil)
          /\ UNCHANGED <<disposed, pixels, baseColor, drawImageHistory>>
       ELSE
          LET r == Replay(i, RestoreSeed(i), 1, failAt, stale, lost \ {i})
          IN  /\ image' = [image EXCEPT ![i] = Texture(r.pix)]
              /\ UNCHANGED disposed
              /\ IF r.err # NoError THEN
                    /\ ret' = Ret("restore", i, r.err, Nil)
                    /\ UNCHANGED <<pixels, baseColor, drawImageHistory>>
                 ELSE IF 0 < Len(drawImageHistory[i]) /\ ~okRead THEN
                    /\ pixels' = [pixels EXCEPT ![i] = Nil]
                    /\ ret' = Ret("restore", i, BackendFailure, Nil)
                    /\ UNCHANGED <<baseColor, drawImageHistory>>
                 ELSE
                    /\ pixels' = [pixels EXCEPT ![i] =
                                     IF 0 < Len(drawImageHistory[i]) THEN r.pix ELSE @]
                    /\ baseColor' = [baseColor EXCEPT ![i] = Nil]
                    /\ drawImageHistory' = [drawImageHistory EXCEPT ![i] = Nil]
                    /\ ret' = Ret("restore", i, NoError, Nil)
    /\ lastFill' = [lastFill EXCEPT ![i] =
                       IF @.c # Nil /\ ret'.err = NoError
                       THEN [c |-> @.c, k |-> Min(@.k + 1, MaxCycles)]
                       ELSE NoFill]

\* The sources of i's history whose texture is still of the lost context.
StaleSources(i) ==
    {drawImageHistory[i][k].image : k \in 1..Len(drawImageHistory[i])} \cap (lost \ {i})

\* ------------------------------------ restore, one thread for each image
\* The same restore when the coordinator restores the images from threads
\* of their own.  Each step below is one stretch of restore between two
\* lock operations; pc[i] # 0 while the thread holds i.m.

\* i.m.Lock() up to the new texture made from the seed.
restoreLock(i) ==
    /\ i \in lost
    /\ pc[i] = 0
    /\ ret.err \notin Panics
    /\ ~disposed[i] /\ ~screen[i] /\ ~volatile[i]
    /\ pc' = [pc EXCEPT ![i] = 1]
    /\ image' = [image EXCEPT ![i] = Texture(RestoreSeed(i))]
    /\ Touch(i)
    /\ UNCHANGED <<images, disposed, pixels, baseColor, drawImageHistory,
                   volatile, screen, lost, ret>>

\* One turn of the replay loop: c.image.impl.hasHistory() takes and frees
\* the source's lock, then the draw reads the source's texture.
restoreReplayItem(i, stale) ==
    /\ pc[i] \in 1..Len(drawImageHistory[i])
    /\ ret.err \notin Panics
    /\ LET src == drawImageHistory[i][pc[i]].image
       IN  /\ pc[src] = 0
           /\ IF hasHistory(src) THEN
                 /\ ret' = Ret("restore", i, PanicNotReach, Nil)
                 /\ pc' = [pc EXCEPT ![i] = 0]
                 /\ UNCHANGED <<image, lost>>
              ELSE IF image[src].nil THEN
                 /\ ret' = Ret("restore", i, PanicNilImage, Nil)
                 /\ pc' = [pc EXCEPT ![i] = 0]
                 /\ UNCHANGED <<image, lost>>
              ELSE IF src \in lost /\ stale.err THEN
                 /\ ret' = Ret("restore", i, BackendFailure, Nil)
                 /\ pc' = [pc EXCEPT ![i] = 0]
                 /\ lost' = lost \ {i}
                 /\ UNCHANGED image
              ELSE
                 /\ image' = [image EXCEPT ![i] =
                                 Texture(CompositeDraw(@.pix,
                                     IF src \in lost THEN stale.pix
                                     ELSE image[src].pix))]
                 /\ pc' = [pc EXCEPT ![i] = @ + 1]
                 /\ UNCHANGED <<lost, ret>>
    /\ Touch(i)
    /\ UNCHANGED <<images, disposed, pixels, baseColor, drawImageHistory,
                   volatile, screen>>

\* After the loop: the readback when history was replayed, the clears and
\* the deferred i.m.Unlock().
restoreUnlock(i) ==
    /\ pc[i] = Len(drawImageHistory[i]) + 1
    /\ ret.err \notin Panics
    /\ pixels' = [pixels EXCEPT ![i] =
                     IF 0 < Len(drawImageHistory[i]) THEN image[i].pix ELSE @]
    /\ baseColor' = [baseColor EXCEPT ![i] = Nil]
    /\ drawImageHistory' = [drawImageHistory EXCEPT ![i] = Nil]
    /\ pc' = [pc EXCEPT ![i] = 0]
    /\ lost' = lost \ {i}
    /\ ret' = Ret("restore", i, NoError, Nil)
    /\ Touch(i)
    /\ UNCHANGED <<images, image, disposed, volatile, screen>>

\* -------------------------------------------------------------- Dispose
\* Dispose without its "already disposed" check.
DisposeUnchecked(i, ok) ==
    /\ Live
    /\ UNCHANGED <<images, volatile, screen, lost, pc>>
    /\ Touch(i)
    /\ IF ~screen[i] /\ image[i].nil THEN
          /\ ret' = Ret("Dispose", i, PanicNilImage, Nil)
          /\ UNCHANGED implVars
       ELSE IF ~screen[i] /\ ~ok THEN
          /\ ret' = Ret("Dispose", i, BackendFailure, Nil)
          /\ UNCHANGED implVars
       ELSE
          /\ image' = [image EXCEPT ![i] = NilImage]
          /\ disposed' = [disposed EXCEPT ![i] = TRUE]
          /\ pixels' = [pixels EXCEPT ![i] = Nil]
          /\ baseColor' = [baseColor EXCEPT ![i] = Nil]
          /\ drawImageHistory' = [drawImageHistory EXCEPT ![i] = Nil]
          /\ ret' = Ret("Dispose", i, NoError, Nil)

Dispose(i, ok) ==
    /\ Live
    /\ UNCHANGED <<images, volatile, screen, lost, pc>>
    /\ Touch(i)
    /\ IF disposed[i] THEN
          /\ ret' = Ret("Dispose", i, AlreadyDisposed, Nil)
          /\ UNCHANGED implVars
       ELSE IF ~screen[i] /\ image[i].nil THEN
          /\ ret' = Ret("Dispose", i, PanicNilImage, Nil)
          /\ UNCHANGED implVars
       ELSE IF ~screen[i] /\ ~ok THEN
          /\ ret' = Ret("Dispose", i, BackendFailure, Nil)
          /\ UNCHANGED implVars
       ELSE
          /\ image' = [image EXCEPT ![i] = NilImage]
          /\ disposed' = [disposed EXCEPT ![i] = TRUE]
          /\ pixels' = [pixels EXCEPT ![i] = Nil]
          /\ baseColor' = [baseColor EXCEPT ![i] = Nil]
          /\ drawImageHistory' = [drawImageHistory EXCEPT ![i] = Nil]
          /\ ret' = Ret("Dispose", i, NoError, Nil)

\* -------------------------------------------------------- ReplacePixels
\* copy(i.pixels, p) into a cache of PixLen bytes
CopyInto(p) == [k \in 1..PixLen |-> p[k]]

\* ReplacePixels rejecting only a buffer that is too short.
ReplacePixelsLooseCheck(i, p, ok) ==
    /\ Live
    /\ UNCHANGED <<images, volatile, screen, lost, pc>>
    /\ Touch(i)
    /\ IF Len(p) < 4 * Width * Height THEN
          /\ ret' = Ret("ReplacePixels", i, SizeMismatch, Nil)
          /\ UNCHANGED implVars
       ELSE
          /\ pixels' = [pixels EXCEPT ![i] = CopyInto(p)]
          /\ baseColor' = [baseColor EXCEPT ![i] = Nil]
          /\ drawImageHistory' = [drawImageHistory EXCEPT ![i] = Nil]
          /\ UNCHANGED disposed
          /\ IF disposed[i] THEN
                /\ ret' = Ret("ReplacePixels", i, AlreadyDisposed, Nil)
                /\ UNCHANGED image
             ELSE IF image[i].nil THEN
                /\ ret' = Ret("ReplacePixels", i, PanicNilImage, Nil)
                /\ UNCHANGED image
             ELSE IF ok THEN
                /\ image' = [image EXCEPT ![i] = Texture(CopyInto(p))]
                /\ ret' = Ret("ReplacePixels", i, NoError, Nil)
             ELSE
                /\ ret' = Ret("ReplacePixels", i, BackendFailure, Nil)
                /\ UNCHANGED image

ReplacePixels(i, p, ok) ==
    /\ Live
    /\ UNCHANGED <<images, volatile, screen, lost, pc>>
    /\ Touch(i)
    /\ IF Len(p) # 4 * Width * Height THEN
          /\ ret' = Ret("ReplacePixels", i, SizeMismatch, Nil)
          /\ UNCHANGED implVars
       ELSE
          /\ pixels' = [pixels EXCEPT ![i] = CopyInto(p)]
          /\ baseColor' = [baseColor EXCEPT ![i] = Nil]
          /\ drawImageHistory' = [drawImageHistory EXCEPT ![i] = Nil]
          /\ UNCHANGED disposed
          /\ IF disposed[i] THEN
                /\ ret' = Ret("ReplacePixels", i, AlreadyDisposed, Nil)
                /\ UNCHANGED image
             ELSE IF image[i].nil THEN
                /\ ret' = Ret("ReplacePixels", i, PanicNilImage, Nil)
                /\ UNCHANGED image
             ELSE IF ok THEN
                /\ image' = [image EXCEPT ![i] = Texture(CopyInto(p))]
                /\ ret' = Ret("ReplacePixels", i, NoError, Nil)
             ELSE
                /\ ret' = Ret("ReplacePixels", i, BackendFailure, Nil)
                /\ UNCHANGED image

\* --------------------------------------------------------- context loss
\* The state of the restore fidelity scenario: A blank then Fill(red), B
\* blank then DrawImage(A, whole image, identity, source-over).
FidelityScenario ==
    /\ ~disposed["A"] /\ ~disposed["B"]
    /\ pixels["A"] = Nil /\ baseColor["A"] = Red /\ drawImageHistory["A"] = Nil
    /\ image["A"] = GpuFill(Red)
    /\ pixels["B"] = Blank /\ baseColor["B"] = Nil
    /\ drawImageHistory["B"] = <<HistoryItem("A", "whole")>>
    /\ image["B"] = Texture(CompositeDraw(Blank, Broadcast(ToPixel(Red))))

\* The GL context is lost: every texture is invalidated, and the restore
\* coordinator will call restore once on every image.
ContextLoss ==
    /\ Live
    /\ lost' = images
    /\ image' = [i \in Images |-> IF image[i].nil THEN image[i] ELSE Texture(Nil)]
    /\ ret' = Ret("ContextLoss", "A", NoError, Nil)
    /\ scenario' = FidelityScenario
    /\ restoreOrder' = <<>>
    /\ UNCHANGED <<images, disposed, pixels, baseColor, drawImageHistory,
                   volatile, screen, lastFill, pc>>

\* ------------------------------------------------------------------ next
\* Every operation, on every image of the registry, with the fill colours
\* drawn from colors and the backend's answers from oks (TRUE: the call
\* succeeds, FALSE: it returns an error).
NextOn(colors, oks) ==
    \/ \E i \in images, clr \in colors, ok \in oks : Fill(i, clr, ok)
    \/ \E i \in images, ok \in oks : clearIfVolatile(i, ok)
    \/ \E i \in images, src \in images, parts \in PartsChoices, ok \in oks :
          DrawImage(i, src, parts, ok)
    \/ \E i \in images, pt \in Points, ok \in oks : At(i, pt[1], pt[2], ok)
    \/ \E i \in images, target \in images, ok \in oks :
          resetHistoryIfNeeded(i, target, ok)
    \/ \E i \in images, p \in Buffers, ok \in oks : ReplacePixels(i, p, ok)
    \/ \E i \in images, ok \in oks : Dispose(i, ok)
    \/ ContextLoss
    \/ \E i \in images, okCreate \in oks, okRead \in oks :
          \E failAt \in {0} \cup {k \in 1..Len(drawImageHistory[i]) : FALSE \in oks} :
             \E stale \in [StaleSources(i) -> StaleOutcomes] :
                restore(i, okCreate, failAt, stale, okRead)

\* Two images, A persistent and S volatile or the screen; every backend
\* call on a live texture succeeds.
Next == NextOn({Red}, {TRUE})
Spec == Init /\ [][Next]_vars

\* The same program with a backend that may fail any call.
NextBackend == NextOn({Red}, BOOLEAN)
SpecBackend == Init /\ [][NextBackend]_vars

\* The program of Spec with a backend whose composite draw and whose
\* readback in resetHistoryIfNeeded may fail.
NextFaults ==
    \/ Next
    \/ \E i \in images, src \in images : DrawImage(i, src, "whole", FALSE)
    \/ \E i \in images, target \in images : resetHistoryIfNeeded(i, target, FALSE)
SpecFaults == Init /\ [][NextFaults]_vars

\* One persistent image, every colour, a backend that may fail any call.
InitColors == InitWith({"A"})
NextColors == NextOn(Colors, BOOLEAN)
SpecColors == InitColors /\ [][NextColors]_vars

\* Three images and the draws B <- A and A <- S: fills, draws, samples,
\* context loss and restores in every order.
ChainDraws == {<<"B", "A">>, <<"A", "S">>}
InitChain == InitWith(Images)
NextChain ==
    \/ \E i \in images : Fill(i, Red, TRUE)
    \/ \E d \in ChainDraws : DrawImage(d[1], d[2], "whole", TRUE)
    \/ \E pt \in Points : At("B", pt[1], pt[2], TRUE)
    \/ ContextLoss
    \/ \E i \in images :
          \E stale \in [StaleSources(i) -> StaleOutcomes] :
             restore(i, TRUE, 0, stale, TRUE)
SpecChain == InitChain /\ [][NextChain]_vars

\* Two persistent images that fill, sample and draw from each other, and a
\* coordinator that restores them from two threads after a context loss.
InitConcurrent == InitWith({"A", "B"})
NextConcurrent ==
    \/ \E i \in images : Fill(i, Red, TRUE)
    \/ \E i \in images, src \in images : DrawImage(i, src, "whole", TRUE)
    \/ \E i \in images, pt \in Points : At(i, pt[1], pt[2], TRUE)
    \/ ContextLoss
    \/ \E i \in images : restoreLock(i)
    \/ \E i \in images : \E stale \in StaleOutcomes : restoreReplayItem(i, stale)
    \/ \E i \in images : restoreUnlock(i)
SpecConcurrent == InitConcurrent /\ [][NextConcurrent]_vars

\* Three persistent images: A is filled red, S is filled half transparent
\* green or written, B draws from both in any order and is sampled or
\* disposed; context loss and restores in every order.
InitReplay ==
    /\ images = Images
    /\ image = [i \in Images |-> Texture(Blank)]
    /\ disposed = [i \in Images |-> FALSE]
    /\ pixels = [i \in Images |-> Blank]
    /\ baseColor = [i \in Images |-> Nil]
    /\ drawImageHistory = [i \in Images |-> Nil]
    /\ volatile = [i \in Images |-> FALSE]
    /\ screen = [i \in Images |-> FALSE]
    /\ lost = {}
    /\ ret = Ret("new", "A", NoError, Nil)
    /\ lastFill = [i \in Images |-> NoFill]
    /\ scenario = FALSE
    /\ restoreOrder = <<>>
    /\ pc = [i \in Images |-> 0]
NextReplay ==
    \/ Fill("A", Red, TRUE)
    \/ Fill("S", HalfGreen, TRUE)
    \/ ReplacePixels("S", Gradient, TRUE)
    \/ \E src \in {"A", "S"} : DrawImage("B", src, "whole", TRUE)
    \/ \E pt \in Points : At("B", pt[1], pt[2], TRUE)
    \/ Dispose("B", TRUE)
    \/ ContextLoss
    \/ \E i \in images :
          \E stale \in [StaleSources(i) -> StaleOutcomes] :
             restore(i, TRUE, 0, stale, TRUE)
SpecReplay == InitReplay /\ [][NextReplay]_vars

\* =================================================================
\* The claims
\* =================================================================

RedPixel == ToPixel(Red)
TransparentPixel == <<0, 0, 0, 0>>

\* C1: after a successful Fill(C) on an image, with no other operation on
\* that image and no context loss since, an At(x, y) that returns gives the
\* colour C (as the RGBA8 pixel of C) at every in-bounds point, whatever
\* happened before the Fill.
FillThenAtReturnsColor ==
    [][\A i \in images, pt \in Points, ok \in BOOLEAN :
          (/\ lastFill[i].c # Nil
           /\ lastFill[i].k = 0
           /\ At(i, pt[1], pt[2], ok)
           /\ ret'.err = NoError)
          => ret'.val = ToPixel(lastFill[i].c)]_vars

\* An At has just returned red on A, whose base colour is the red of the
\* Fill before it and whose cache the At has read back.
FillThenAtWitness ==
    /\ ret.op = "At" /\ ret.img = "A" /\ ret.err = NoError
    /\ ret.val = RedPixel
    /\ baseColor["A"] = Red
    /\ pixels["A"] = Broadcast(RedPixel)
    /\ drawImageHistory["A"] = Nil

\* C2: in the restore fidelity scenario (A blank then Fill(red), B blank
\* then DrawImage(A, whole image, identity, source-over), then the context
\* is lost), once restore has run on A and on B, in either order, B holds
\* opaque red at every point and At on B returns it.
RestoreOrderIndependent ==
    LET ab == SelectSeq(restoreOrder, LAMBDA x : x \in {"A", "B"})
    IN  (scenario /\ ab \in {<<"A", "B">>, <<"B", "A">>})
        => /\ image["B"] = Texture(Broadcast(RedPixel))
           /\ \A pt \in Points : AtValue("B", pt[1], pt[2]) = RedPixel

\* The part of C2 the code keeps: with A restored before B, B is red.
RestoreSourceFirst ==
    LET ab == SelectSeq(restoreOrder, LAMBDA x : x \in {"A", "B"})
    IN  (scenario /\ ab = <<"A", "B">>)
        => /\ image["B"] = Texture(Broadcast(RedPixel))
           /\ \A pt \in Points : AtValue("B", pt[1], pt[2]) = RedPixel

\* C3: a persistent image filled with C and then taken through one or
\* more context loss and restore cycles, with no other operation on it,
\* samples C at every in-bounds point.
PersistentSurvivesLoss ==
    \A i \in images :
       (/\ ~volatile[i] /\ ~screen[i] /\ ~disposed[i]
        /\ lastFill[i].c # Nil
        /\ lastFill[i].k >= 1
        /\ i \notin lost)
       => \A pt \in Points : AtValue(i, pt[1], pt[2]) = ToPixel(lastFill[i].c)

\* The part of C3 the code keeps for a colour whose channels are 8 bit
\* values: the first restore after the Fill rebuilds the colour.
PersistentSurvivesOneLoss ==
    \A i \in images :
       (/\ ~volatile[i] /\ ~screen[i] /\ ~disposed[i]
        /\ lastFill[i].c = Red
        /\ lastFill[i].k = 1
        /\ i \notin lost)
       => \A pt \in Points : AtValue(i, pt[1], pt[2]) = RedPixel

\* C4: DrawImage with the receiver as its source returns InvalidOperand
\* for every parts selection, and changes nothing.
SelfDrawAlwaysRejected ==
    [][\A i \in images, parts \in PartsChoices, ok \in BOOLEAN :
          DrawImage(i, i, parts, ok)
          => (ret'.err = InvalidOperand /\ UNCHANGED implVars)]_vars

\* C5: once an image is disposed it stays disposed in every later state,
\* and every later Dispose returns AlreadyDisposed and changes nothing.
DisposalIrreversible ==
    [][\A i \in images :
          disposed[i] =>
             /\ disposed'[i]
             /\ \A ok \in BOOLEAN :
                   Dispose(i, ok)
                   => (ret'.err = AlreadyDisposed /\ UNCHANGED implVars)]_vars

\* A Dispose of the already disposed A has just returned AlreadyDisposed.
DisposalIrreversibleWitness ==
    /\ disposed["A"]
    /\ ret.op = "Dispose" /\ ret.img = "A" /\ ret.err = AlreadyDisposed

ErrorsBeforeMutation ==
    [][(/\ ret'.op \in {"Fill", "DrawImage", "ReplacePixels", "Dispose"}
        /\ ret'.err \in {AlreadyDisposed, SizeMismatch, InvalidOperand})
       => UNCHANGED implVars]_vars

\* C8: ReplacePixels with a buffer whose length is not 4*width*height
\* returns SizeMismatch and changes nothing, disposed or not.
SizeMismatchNoMutation ==
    [][\A i \in images, p \in Buffers, ok \in BOOLEAN :
          (Len(p) # 4 * Width * Height /\ ReplacePixels(i, p, ok))
          => (ret'.err = SizeMismatch /\ UNCHANGED implVars)]_vars

\* A ReplacePixels has just returned SizeMismatch on an image that holds a
\* base colour.
SizeMismatchWitness ==
    /\ ret.op = "ReplacePixels" /\ ret.err = SizeMismatch
    /\ ~disposed[ret.img] /\ baseColor[ret.img] # Nil

\* C9: a successful clearIfVolatile on a volatile image that is not
\* disposed leaves pixel cache, base colour and draw history empty, and an
\* At issued next on it returns transparent at every in-bounds point.
VolatileClear ==
    [][\A i \in images :
          (volatile[i] /\ ~disposed[i]) =>
             /\ \A ok \in BOOLEAN :
                   (clearIfVolatile(i, ok) /\ ret'.err = NoError)
                   => /\ pixels'[i] = Nil
                      /\ baseColor'[i] = Nil
                      /\ drawImageHistory'[i] = Nil
             /\ \A pt \in Points, ok \in BOOLEAN :
                   (/\ ret.op = "clearIfVolatile" /\ ret.img = i
                    /\ ret.err = NoError
                    /\ At(i, pt[1], pt[2], ok)
                    /\ ret'.err = NoError)
                   => ret'.val = TransparentPixel]_vars

\* clearIfVolatile has just succeeded on the volatile S, which is not
\* disposed and whose texture is transparent.
VolatileClearWitness ==
    /\ ret.op = "clearIfVolatile" /\ ret.img = "S" /\ ret.err = NoError
    /\ volatile["S"] /\ ~disposed["S"]
    /\ pixels["S"] = Nil
    /\ image["S"] = Texture(Blank)

\* C10: no restore, in any order and after any operations on the images,
\* reaches the "not reach" panic for a source that still has history.
RestoreNeverNotReach == ret.err # PanicNotReach

\* A restore thread that waits for the lock of its next source.
Blocked(i) ==
    /\ pc[i] \in 1..Len(drawImageHistory[i])
    /\ pc[drawImageHistory[i][pc[i]].image] # 0

\* C11: no reachable interleaving of concurrent restores deadlocks: there
\* is never a set of restore threads each of which waits for a lock held
\* by a thread of the set.
RestoresNeverDeadlock ==
    ~ \E D \in SUBSET images :
         /\ D # {}
         /\ \A i \in D : Blocked(i) /\ drawImageHistory[i][pc[i]].image \in D

\* C12: right after a successful restore of a volatile image that is neither
\* the screen nor disposed, At returns transparent at every in-bounds point,
\* whatever was filled, drawn, written or sampled before the context loss.
VolatileRestoreBlank ==
    \A i \in images :
       (/\ ret.op = "restore" /\ ret.img = i /\ ret.err = NoError
        /\ volatile[i] /\ ~screen[i] /\ ~disposed[i])
       => \A pt \in Points : AtValue(i, pt[1], pt[2]) = TransparentPixel

\* The part of C12 the code keeps: the texture the restore creates is blank.
VolatileRestoreBlankTexture ==
    \A i \in images :
       (/\ ret.op = "restore" /\ ret.img = i /\ ret.err = NoError
        /\ volatile[i] /\ ~screen[i] /\ ~disposed[i])
       => image[i] = Texture(Blank)

CacheCoherent ==
    \A i \in images :
       (/\ ~disposed[i] /\ i \notin lost /\ ~image[i].nil
        /\ pixels[i] # Nil /\ drawImageHistory[i] = Nil)
       => pixels[i] = image[i].pix

\* The part of C14 the code keeps: the persistent images.
CacheCoherentPersistent ==
    \A i \in images :
       (/\ ~volatile[i] /\ ~screen[i]
        /\ ~disposed[i] /\ i \notin lost /\ ~image[i].nil
        /\ pixels[i] # Nil /\ drawImageHistory[i] = Nil)
       => pixels[i] = image[i].pix

\* C15: an At that returns (its readback, if it makes one, succeeds) on an
\* image that is not disposed reads the texture back into the pixel cache
\* exactly when the cache is absent or the draw history is not empty, and
\* otherwise changes nothing; after it the cache is present, the history is
\* empty and the value it returned is the cache's pixel at the point; an At
\* that directly follows an At on the same image changes nothing and
\* returns the pixel of the same cache.  An At on a disposed image returns
\* transparent and changes nothing.
AtReadsBackWhenNeeded ==
    [][\A i \in images, pt \in Points :
          (/\ ret'.op = "At" /\ ret'.img = i /\ ret'.err = NoError
           /\ At(i, pt[1], pt[2], TRUE))
          => IF disposed[i] THEN
                ret'.val = TransparentPixel /\ UNCHANGED implVars
             ELSE
                /\ IF pixels[i] = Nil \/ drawImageHistory[i] # Nil
                   THEN /\ pixels'[i] = image[i].pix
                        /\ UNCHANGED <<image, disposed, baseColor>>
                   ELSE UNCHANGED implVars
                /\ pixels'[i] # Nil
                /\ drawImageHistory'[i] = Nil
                /\ ret'.val = PixelAt(pixels'[i], pt[1], pt[2])
                /\ (ret.op = "At" /\ ret.img = i /\ ret.err = NoError)
                   => (/\ UNCHANGED implVars
                       /\ ret'.val = PixelAt(pixels[i], pt[1], pt[2]))]_vars

\* An At on A has just read back what a draw from the red S left in A's
\* texture: the cache holds it and the history is empty again.
AtReadsBackWitness ==
    /\ ret.op = "At" /\ ret.img = "A" /\ ret.err = NoError
    /\ ret.val = RedPixel
    /\ baseColor["A"] = Nil
    /\ pixels["A"] = Broadcast(RedPixel)
    /\ image["A"] = Texture(Broadcast(RedPixel))
    /\ drawImageHistory["A"] = Nil

\* C16: resetHistoryIfNeeded(T) on an image that is not disposed changes
\* nothing when no record of its history has T as source; when a record has
\* T as source and the readback succeeds, the pixel cache becomes the
\* texture's content and base colour and history become empty, so that no
\* record naming T remains.
ResetHistoryEffect ==
    [][\A i \in images, target \in images, ok \in BOOLEAN :
          (~disposed[i] /\ resetHistoryIfNeeded(i, target, ok))
          => IF ~hasHistoryWith(i, target) THEN
                UNCHANGED implVars
             ELSE
                ok => /\ pixels'[i] = image[i].pix
                      /\ baseColor'[i] = Nil
                      /\ drawImageHistory'[i] = Nil
                      /\ \A k \in 1..Len(drawImageHistory'[i]) :
                            drawImageHistory'[i][k].image # target
                      /\ UNCHANGED <<image, disposed>>]_vars

\* resetHistoryIfNeeded has just flattened A: its cache holds the red its
\* texture got from a draw, and base colour and history are empty.
ResetHistoryWitness ==
    /\ ret.op = "resetHistoryIfNeeded" /\ ret.img = "A" /\ ret.err = NoError
    /\ ~disposed["A"]
    /\ pixels["A"] = Broadcast(RedPixel)
    /\ image["A"] = Texture(Broadcast(RedPixel))
    /\ baseColor["A"] = Nil
    /\ drawImageHistory["A"] = Nil

\* C17: a resetHistoryIfNeeded whose forced readback fails returns success
\* and leaves pixel cache, base colour and draw history as they were.
FailedFlattenKeepsBasis ==
    [][\A i \in images, target \in images :
          (/\ ~disposed[i]
           /\ hasHistoryWith(i, target)
           /\ resetHistoryIfNeeded(i, target, FALSE))
          => (/\ ret'.err = NoError
              /\ UNCHANGED <<pixels, baseColor, drawImageHistory>>)]_vars

\* The part of C17 the code keeps: the error is swallowed, and base colour
\* and draw history are as they were.
FailedFlattenSwallowed ==
    [][\A i \in images, target \in images :
          (/\ ~disposed[i]
           /\ hasHistoryWith(i, target)
           /\ resetHistoryIfNeeded(i, target, FALSE))
          => (/\ ret'.err = NoError
              /\ UNCHANGED <<baseColor, drawImageHistory>>)]_vars

\* What the texture of i holds when the first k records of its history
\* have been drawn, each once and in the order of the history, on the seed.
RECURSIVE ExpectedReplay(_, _, _)
ExpectedReplay(i, k, stale) ==
    IF k = 0 THEN RestoreSeed(i)
    ELSE LET src == drawImageHistory[i][k].image
         IN  CompositeDraw(ExpectedReplay(i, k - 1, stale),
                           IF src \in lost \ {i} THEN stale[src].pix
                           ELSE image[src].pix)

\* C18: a successful restore of a persistent image that is not disposed
\* leaves in its texture the seed (pixel cache, else base colour, else
\* blank) with every record of the history drawn on it once, in the order
\* of the history, and leaves the history empty, so that a restore with an
\* empty history gives the seed alone; a restore of a disposed image
\* returns success and changes nothing.
RestoreReplaysInOrder ==
    [][\A i \in images :
          \A stale \in [StaleSources(i) -> StaleOutcomes] :
             restore(i, TRUE, 0, stale, TRUE)
             => IF disposed[i] THEN
                   ret'.err = NoError /\ UNCHANGED implVars
                ELSE
                   (~volatile[i] /\ ~screen[i] /\ ret'.err = NoError)
                   => /\ image'[i] = Texture(ExpectedReplay(
                                         i, Len(drawImageHistory[i]), stale))
                      /\ drawImageHistory'[i] = Nil
                      /\ (drawImageHistory[i] = Nil
                          => image'[i] = Texture(RestoreSeed(i)))]_vars

\* B has just been restored from a history of two records, the red A and
\* then the half transparent green S: its texture and its cache hold green
\* over red.
RestoreReplaysWitness ==
    /\ ret.op = "restore" /\ ret.img = "B" /\ ret.err = NoError
    /\ lost = {}
    /\ image["A"] = Texture(Broadcast(RedPixel))
    /\ image["S"] = Texture(Broadcast(ToPixel(HalfGreen)))
    /\ image["B"] = Texture(CompositeDraw(Broadcast(RedPixel),
                                          Broadcast(ToPixel(HalfGreen))))
    /\ pixels["B"] = image["B"].pix
    /\ drawImageHistory["B"] = Nil

\* C19: in every reachable state no record of an image's draw history
\* names that image as its source.
NoSelfRecord ==
    \A i \in images :
       \A k \in 1..Len(drawImageHistory[i]) : drawImageHistory[i][k].image # i

\* A DrawImage of A onto itself has just been rejected, and the records A
\* holds from earlier draws all name another image.
NoSelfRecordWitness ==
    /\ ret.op = "DrawImage" /\ ret.img = "A" /\ ret.err = InvalidOperand
    /\ drawImageHistory["A"] # Nil
    /\ \A k \in 1..Len(drawImageHistory["A"]) : drawImageHistory["A"][k].image # "A"

\* C20: a DrawImage that passes its self-draw and disposed checks and whose
\* composite draw, issued on two textures that exist, fails, returns the
\* backend's error with its record as the last entry of the history, the
\* earlier records before it, and pixel cache and base colour unchanged.
FailedDrawKeepsRecord ==
    [][\A i \in images, src \in images, parts \in PartsChoices :
          (/\ ret'.op = "DrawImage" /\ ret'.img = i
           /\ NumQuads(parts) # 0 /\ i # src /\ ~disposed[i]
           /\ ~image[i].nil /\ ~image[src].nil
           /\ DrawImage(i, src, parts, FALSE))
          => /\ ret'.err = BackendFailure
             /\ drawImageHistory'[i] =
                   Append(drawImageHistory[i], HistoryItem(src, parts))
             /\ UNCHANGED <<pixels, baseColor, disposed, image>>]_vars

\* A DrawImage from S onto A has just returned the backend's error, and
\* A's history ends with the record of that draw.
FailedDrawWitness ==
    /\ ret.op = "DrawImage" /\ ret.img = "A" /\ ret.err = BackendFailure
    /\ drawImageHistory["A"] # Nil
    /\ drawImageHistory["A"][Len(drawImageHistory["A"])] = HistoryItem("S", "whole")

====
